---- MODULE Spec2Model ----
(***************************************************************************)
(* ApplicationTokenCredentials (lib/credentials/applicationTokenCredentials) *)
(* as a state machine: one credential, its token cache, and the promise     *)
(* chains that getToken(), getTokenFromCache() and                          *)
(* removeInvalidItemsFromCache() build.  Every promise reaction job and     *)
(* every callback of the wrapped library is one action.  Reaction jobs are  *)
(* microtasks: a library callback that fires on a later tick runs only      *)
(* when no reaction job is pending.                                         *)
(***************************************************************************)
EXTENDS Integers, Sequences, FiniteSets, TLC

\* Number of getToken() calls the caller makes, one after the other.
MaxCalls == 2

\* Number of getToken() calls made on the DeviceTokenCredentials.
MaxDeviceCalls == 2

VARIABLES
  cache,      \* entries held by this.tokenCache
  calls,      \* getToken() calls started so far
  dispatch,   \* which getTokenFromCache() the current call reached
  chain,      \* the five promises of the current getToken() call
  repair,     \* per call: the removeInvalidItemsFromCache() promise chain
  lookupCalls,\* cache lookups issued by the current call
  acquire,    \* acquireTokenWithClientCredentials of the current call
  acquireCalls,
  cacheAtStart, \* cache contents when the current call started
  ownAtFailure, \* entries of this client in the cache when its lookup failed
  sp,         \* one withServicePrincipalSecretWithAuthResponse() call
  authFile,   \* one withAuthFileWithAuthResponse() call, process.env, AzureEnvironment
  urlCheck,   \* one foundManagementEndpointUrl() call
  interactive,\* one withInteractiveWithAuthResponse() call
  entry,      \* one public entry point, called in its promise and its callback form
  userPass,   \* one withUsernamePasswordWithAuthResponse() call
  device      \* one DeviceTokenCredentials, its token cache and its getToken() calls

\* The state of the credential and of its getToken() calls.
tokenVars == <<cache, calls, dispatch, chain, repair, lookupCalls, acquire,
               acquireCalls, cacheAtStart, ownAtFailure>>

\* The state of the login functions.
loginVars == <<sp, authFile, urlCheck, interactive, entry, userPass, device>>

vars == <<tokenVars, loginVars>>

-----------------------------------------------------------------------------
\* Values that travel through promises and callbacks.

NoMessage == <<>>

Undefined == [kind |-> "undefined", src |-> "none", message |-> NoMessage]

True == [kind |-> "true", src |-> "none", message |-> NoMessage]

\* A TokenResponse; src tells which library call delivered it.
TokenResponse(src) == [kind |-> "token", src |-> src, message |-> NoMessage]

\* An Error object; src tells which call created it.
Error(src, message) == [kind |-> "error", src |-> src, message |-> message]

\* AuthConstants.SDK_INTERNAL_ERROR, the sentinel that opens a critical message.
SDK_INTERNAL_ERROR == <<"SDK_INTERNAL_ERROR">>

\* String.prototype.startsWith on messages kept as sequences of fragments.
startsWith(message, prefix) ==
  /\ Len(message) >= Len(prefix)
  /\ SubSeq(message, 1, Len(prefix)) = prefix

\* Errors the wrapped library reports.
LookupErrors ==
  { Error("lookup", <<"Entry not found in cache.">>),
    Error("lookup", <<"getaddrinfo ENOTFOUND">>) }

FindError == Error("find", <<"find failed">>)

RemoveError == Error("remove", <<"remove failed">>)

AcquireError == Error("acquire", <<"invalid_client">>)

\* Cache entries: whose they are and whether the access token is still usable.
Entries ==
  { [clientId |-> "own", valid |-> TRUE],
    [clientId |-> "own", valid |-> FALSE],
    [clientId |-> "other", valid |-> TRUE] }

\* tokenCache.find({ _clientId: self.clientId }): the entries of this client.
findEntries(c) == { e \in c : e.clientId = "own" }

-----------------------------------------------------------------------------
\* Promises.

Pending == [state |-> "pending", value |-> Undefined]

Resolved(v) == [state |-> "resolved", value |-> v]

Rejected(e) == [state |-> "rejected", value |-> e]

Settled(p) == p.state # "pending"

ChainNames == {"lookup", "cacheThen", "cacheCatch", "tokenThen", "tokenCatch"}

NoChain == [n \in ChainNames |-> Pending]

NoRepair ==
  [ find |-> "none", remove |-> "none", toRemove |-> {},
    findCalls |-> 0, removeCalls |-> 0,
    findFailed |-> FALSE, removeFailed |-> FALSE, removed |-> FALSE,
    foundNone |-> FALSE,
    R0 |-> Pending, R1 |-> Pending, R2 |-> Pending,
    error |-> Undefined ]

-----------------------------------------------------------------------------
\* The handlers of the source, one operator each.

\* resolve()/reject() of a promise that is already settled does nothing.
settle(p, q) == IF Settled(p) THEN p ELSE q

\* getTokenFromCache: .then((tokenResponse) => { return Promise.resolve(tokenResponse); })
cacheThen(tokenResponse) == Resolved(tokenResponse)

\* getTokenFromCache: .catch((error) => { self.removeInvalidItemsFromCache(...)... })
\* The handler starts the repair chain and returns nothing.
cacheCatch(error) == Resolved(Undefined)

\* getTokenFromCache: .then(() => Promise.reject(error)) on the repair promise.
repairThen(error) == Rejected(error)

\* new Error(SDK_INTERNAL_ERROR + " : " + "critical failure ... " + reason.message)
criticalError(reason) ==
  Error("wrapper",
        SDK_INTERNAL_ERROR
          \o <<" : ",
               "critical failure while removing expired token for service principal from token cache. ">>
          \o reason.message)

\* getTokenFromCache: .catch((reason) => Promise.reject(new Error(...)))
repairCatch(reason) == Rejected(criticalError(reason))

\* Variant of getTokenThen whose handler body forgets to return its argument.
getTokenThenNoReturn(tokenResponse) == Resolved(Undefined)

\* getToken: .then((tokenResponse) => tokenResponse)
getTokenThen(tokenResponse) == Resolved(tokenResponse)

\* Variant of isInternalError that compares the whole message with the sentinel.
isInternalErrorWholeMessage(error) == error.message = SDK_INTERNAL_ERROR

\* getToken: error.message.startsWith(AuthConstants.SDK_INTERNAL_ERROR)
isInternalError(error) == startsWith(error.message, SDK_INTERNAL_ERROR)

\* Variant of acquireCallback that does nothing when it is given an error.
acquireCallbackIgnoresError(error, tokenResponse) ==
  IF error # Undefined THEN Pending ELSE Resolved(tokenResponse)

\* Variant of acquireCallback that drops the error check.
acquireCallbackNoErrorCheck(error, tokenResponse) == Resolved(tokenResponse)

\* getToken: the callback handed to acquireTokenWithClientCredentials.
acquireCallback(error, tokenResponse) ==
  IF error # Undefined THEN Rejected(error) ELSE Resolved(tokenResponse)

\* tokenCache.remove(entries, cb) as the library performs it.
removeEntries(c, entries, ok) == IF ok THEN c \ entries ELSE c

\* removeInvalidItemsFromCache: the remove callback, () => resolve(true).
removeCallback(rep) == [rep EXCEPT !.R0 = settle(@, Resolved(True))]

\* removeInvalidItemsFromCache: the find callback.  `removeSync` says whether the
\* cache calls the remove callback before remove() returns; remove() returns
\* undefined, which the code hands to resolve().
findCallback(rep, c, error, entries, removeSync, removeOk) ==
  IF error # Undefined
    THEN [rep |-> [rep EXCEPT !.find = "done", !.findFailed = TRUE,
                              !.R0 = settle(@, Rejected(error))],
          cache |-> c]
  ELSE IF Cardinality(entries) > 0
    THEN IF removeSync
      THEN [rep |-> removeCallback(
                      [rep EXCEPT !.find = "done", !.remove = "done",
                                  !.removeCalls = @ + 1,
                                  !.removeFailed = ~removeOk,
                                  !.removed = removeOk]),
            cache |-> removeEntries(c, entries, removeOk)]
      ELSE [rep |-> [rep EXCEPT !.find = "done", !.remove = "pending",
                                !.removeCalls = @ + 1, !.toRemove = entries,
                                !.R0 = settle(@, Resolved(Undefined))],
            cache |-> c]
  ELSE [rep |-> [rep EXCEPT !.find = "done", !.foundNone = TRUE,
                            !.R0 = settle(@, Resolved(True))],
        cache |-> c]

-----------------------------------------------------------------------------
\* Which reaction jobs (microtasks) are waiting to run.

CanCacheThen ==
  dispatch = "code" /\ Settled(chain.lookup) /\ ~Settled(chain.cacheThen)

CanCacheCatch ==
  dispatch = "code" /\ Settled(chain.cacheThen) /\ ~Settled(chain.cacheCatch)

CanTokenThen ==
  dispatch # "idle" /\ Settled(chain.cacheCatch) /\ ~Settled(chain.tokenThen)

CanTokenCatch ==
  /\ dispatch # "idle"
  /\ Settled(chain.tokenThen) /\ ~Settled(chain.tokenCatch)
  /\ acquire = "none"

CanRepairThen(k) == Settled(repair[k].R0) /\ ~Settled(repair[k].R1)

CanRepairCatch(k) == Settled(repair[k].R1) /\ ~Settled(repair[k].R2)

MicrotaskPending ==
  \/ CanCacheThen \/ CanCacheCatch \/ CanTokenThen \/ CanTokenCatch
  \/ \E k \in 1..MaxCalls : CanRepairThen(k) \/ CanRepairCatch(k)

\* getToken() of the current call has settled (or no call was made yet).
CallSettled == calls = 0 \/ Settled(chain.tokenCatch)

-----------------------------------------------------------------------------
\* No login function has been called.
NoSp ==
  [ pc |-> "idle", secret |-> [type |-> "none", truthy |-> FALSE], graph |-> FALSE,
    baseConstructed |-> FALSE, getTokenCalls |-> 0, subscriptionCalls |-> 0,
    environment |-> <<>>, result |-> Pending,
    tokenAudience |-> "undefined", tokenObtained |-> FALSE,
    tokenCacheOption |-> "", credentialCache |-> "" ]

\* No file has been loaded: only the inputs of the call and process.env exist.
NoAuthFile(input) ==
  [ pc |-> "idle", input |-> input, validated |-> FALSE,
    env |-> [n \in {"AZURE_SUBSCRIPTION_ID", "MY_SUBSCRIPTION"} |-> "unset"],
    added |-> <<>>, addCalls |-> 0, error |-> Undefined ]

NoInput == [filePathOption |-> "", envLocation |-> "", subscriptionOption |-> "",
            content |-> "none", present |-> {},
            managementEndpointUrl |-> <<>>, resourceManagerEndpointUrl |-> <<>>]

NoUrlCheck == [authFileUrl |-> <<>>, envUrl |-> <<>>, result |-> "none"]

\* withInteractiveWithAuthResponse before it is called.  "" stands for a
\* property that is undefined.
NoInteractive ==
  [ pc |-> "idle", logger |-> FALSE, graph |-> FALSE, trace |-> <<>>,
    tokenAudience |-> "undefined", subscriptionCalls |-> 0,
    userCodeError |-> Undefined,
    options |-> [username |-> "", userName |-> ""],
    userId |-> "",
    getUserCode |-> Pending,
    chain |-> [n \in {"token", "tenants", "subscriptions", "result"} |-> Pending] ]

\* A public entry point before it is called.
NoEntry ==
  [ fn |-> "none", threw |-> FALSE, flow |-> Pending, thenPromise |-> Pending,
    promise |-> Pending, callbackCalls |-> 0, callbackArgs |-> <<>> ]

\* withUsernamePasswordWithAuthResponse before it is called.
NoUserPass ==
  [ pc |-> "idle", tokenAudience |-> "undefined", tokenCacheOption |-> "",
    credentialCache |-> "", constructed |-> FALSE, tokenObtained |-> FALSE,
    getTokenCalls |-> 0, tenantCalls |-> 0, subscriptionCalls |-> 0,
    result |-> Pending ]

\* No DeviceTokenCredentials is in use.
NoDevice ==
  [ username |-> "", cache |-> {}, calls |-> 0, pc |-> "idle",
    lookupCalls |-> 0, lookupUser |-> "", lookupError |-> Undefined,
    removeCalls |-> 0, acquireCalls |-> 0, result |-> Pending ]

LoginIdle ==
  /\ userPass = NoUserPass
  /\ device = NoDevice
  /\ entry = NoEntry
  /\ sp = NoSp
  /\ authFile = NoAuthFile(NoInput)
  /\ urlCheck = NoUrlCheck
  /\ interactive = NoInteractive

Init ==
  /\ cache \in SUBSET Entries
  /\ calls = 0
  /\ dispatch = "idle"
  /\ chain = NoChain
  /\ repair = [k \in 1..MaxCalls |-> NoRepair]
  /\ lookupCalls = 0
  /\ acquire = "none"
  /\ acquireCalls = 0
  /\ cacheAtStart = {}
  /\ ownAtFailure = {}
  /\ LoginIdle

\* getToken() -> this.getTokenFromCache() -> super.getTokenFromCache(undefined):
\* the base class asks the library for a cached token.
StartGetToken ==
  /\ calls < MaxCalls
  /\ CallSettled
  /\ calls' = calls + 1
  /\ dispatch' = "code"
  /\ chain' = NoChain
  /\ lookupCalls' = 1
  /\ acquire' = "none"
  /\ acquireCalls' = 0
  /\ cacheAtStart' = cache
  /\ ownAtFailure' = {}
  /\ UNCHANGED <<cache, repair>>
  /\ UNCHANGED loginVars

\* The library's answer to the cache lookup settles the base promise.
LookupCallback ==
  /\ dispatch = "code"
  /\ ~Settled(chain.lookup)
  /\ ~MicrotaskPending
  /\ \/ /\ \E e \in cache : e.clientId = "own" /\ e.valid
        /\ chain' = [chain EXCEPT !.lookup = Resolved(TokenResponse("cache"))]
        /\ UNCHANGED ownAtFailure
     \/ /\ \E err \in LookupErrors :
             chain' = [chain EXCEPT !.lookup = Rejected(err)]
        /\ ownAtFailure' = findEntries(cache)
  /\ UNCHANGED <<cache, calls, dispatch, repair, lookupCalls, acquire,
                 acquireCalls, cacheAtStart>>
  /\ UNCHANGED loginVars

\* Reaction of getTokenFromCache's .then(...).
CacheThenJob ==
  /\ CanCacheThen
  /\ chain' = [chain EXCEPT !.cacheThen =
                 IF chain.lookup.state = "resolved"
                   THEN cacheThen(chain.lookup.value)
                   ELSE Rejected(chain.lookup.value)]
  /\ UNCHANGED <<cache, calls, dispatch, repair, lookupCalls, acquire,
                 acquireCalls, cacheAtStart, ownAtFailure>>
  /\ UNCHANGED loginVars

\* Reaction of getTokenFromCache's .catch(...): on a rejection the handler calls
\* removeInvalidItemsFromCache, whose executor calls tokenCache.find; the cache
\* answers later, or at once, inside the call.
CacheCatchJob ==
  /\ CanCacheCatch
  /\ IF chain.cacheThen.state = "resolved"
       THEN /\ chain' = [chain EXCEPT !.cacheCatch = Resolved(chain.cacheThen.value)]
            /\ UNCHANGED <<cache, repair>>
       ELSE LET error == chain.cacheThen.value
                rep == [NoRepair EXCEPT !.find = "pending", !.findCalls = 1,
                                        !.error = error]
            IN /\ chain' = [chain EXCEPT !.cacheCatch = cacheCatch(error)]
               /\ \E findSync, removeSync, removeOk \in BOOLEAN :
                  \E findErr \in {Undefined, FindError} :
                    LET out == IF findSync
                                 THEN findCallback(rep, cache, findErr,
                                                   findEntries(cache),
                                                   removeSync, removeOk)
                                 ELSE [rep |-> rep, cache |-> cache]
                    IN /\ repair' = [repair EXCEPT ![calls] = out.rep]
                       /\ cache' = out.cache
  /\ UNCHANGED <<calls, dispatch, lookupCalls, acquire, acquireCalls,
                 cacheAtStart, ownAtFailure>>
  /\ UNCHANGED loginVars

\* The find callback of a cache that answers on a later tick.
FindCallback(k) ==
  /\ repair[k].find = "pending"
  /\ ~MicrotaskPending
  /\ \E removeSync, removeOk \in BOOLEAN :
     \E findErr \in {Undefined, FindError} :
       LET out == findCallback(repair[k], cache, findErr, findEntries(cache),
                               removeSync, removeOk)
       IN /\ repair' = [repair EXCEPT ![k] = out.rep]
          /\ cache' = out.cache
  /\ UNCHANGED <<calls, dispatch, chain, lookupCalls, acquire, acquireCalls,
                 cacheAtStart, ownAtFailure>>
  /\ UNCHANGED loginVars

\* The remove callback of a cache that answers on a later tick.
RemoveCallback(k) ==
  /\ repair[k].remove = "pending"
  /\ ~MicrotaskPending
  /\ \E removeOk \in BOOLEAN :
       /\ repair' = [repair EXCEPT ![k] =
                       removeCallback([@ EXCEPT !.remove = "done",
                                                !.removeFailed = ~removeOk,
                                                !.removed = removeOk])]
       /\ cache' = removeEntries(cache, repair[k].toRemove, removeOk)
  /\ UNCHANGED <<calls, dispatch, chain, lookupCalls, acquire, acquireCalls,
                 cacheAtStart, ownAtFailure>>
  /\ UNCHANGED loginVars

\* Reaction of .then(() => Promise.reject(error)) on the repair promise.
RepairThenJob(k) ==
  /\ CanRepairThen(k)
  /\ repair' = [repair EXCEPT ![k].R1 =
                  IF repair[k].R0.state = "resolved"
                    THEN repairThen(repair[k].error)
                    ELSE Rejected(repair[k].R0.value)]
  /\ UNCHANGED <<cache, calls, dispatch, chain, lookupCalls, acquire,
                 acquireCalls, cacheAtStart, ownAtFailure>>
  /\ UNCHANGED loginVars

\* Reaction of the .catch((reason) => ...) that follows it.
RepairCatchJob(k) ==
  /\ CanRepairCatch(k)
  /\ repair' = [repair EXCEPT ![k].R2 =
                  IF repair[k].R1.state = "resolved"
                    THEN Resolved(repair[k].R1.value)
                    ELSE repairCatch(repair[k].R1.value)]
  /\ UNCHANGED <<cache, calls, dispatch, chain, lookupCalls, acquire,
                 acquireCalls, cacheAtStart, ownAtFailure>>
  /\ UNCHANGED loginVars

\* Reaction of getToken's .then(...).
TokenThenJob ==
  /\ CanTokenThen
  /\ chain' = [chain EXCEPT !.tokenThen =
                 IF chain.cacheCatch.state = "resolved"
                   THEN getTokenThen(chain.cacheCatch.value)
                   ELSE Rejected(chain.cacheCatch.value)]
  /\ UNCHANGED <<cache, calls, dispatch, repair, lookupCalls, acquire,
                 acquireCalls, cacheAtStart, ownAtFailure>>
  /\ UNCHANGED loginVars

\* Reaction of getToken's .catch(...): a critical error is re-signalled, any
\* other error starts acquireTokenWithClientCredentials.
TokenCatchJob ==
  /\ CanTokenCatch
  /\ IF chain.tokenThen.state = "resolved"
       THEN /\ chain' = [chain EXCEPT !.tokenCatch = Resolved(chain.tokenThen.value)]
            /\ UNCHANGED <<acquire, acquireCalls>>
       ELSE IF isInternalError(chain.tokenThen.value)
         THEN /\ chain' = [chain EXCEPT !.tokenCatch = Rejected(chain.tokenThen.value)]
              /\ UNCHANGED <<acquire, acquireCalls>>
         ELSE /\ acquire' = "pending"
              /\ acquireCalls' = acquireCalls + 1
              /\ UNCHANGED chain
  /\ UNCHANGED <<cache, calls, dispatch, repair, lookupCalls, cacheAtStart,
                 ownAtFailure>>
  /\ UNCHANGED loginVars

\* The library's answer to acquireTokenWithClientCredentials; a token it
\* delivers is also stored in the cache.
AcquireCallback ==
  /\ acquire = "pending"
  /\ ~MicrotaskPending
  /\ \/ /\ acquire' = "succeeded"
        /\ chain' = [chain EXCEPT !.tokenCatch =
                       settle(@, acquireCallback(Undefined, TokenResponse("live")))]
        /\ cache' = cache \cup {[clientId |-> "own", valid |-> TRUE]}
     \/ /\ acquire' = "failed"
        /\ chain' = [chain EXCEPT !.tokenCatch =
                       settle(@, acquireCallback(AcquireError, Undefined))]
        /\ UNCHANGED cache
  /\ UNCHANGED <<calls, dispatch, repair, lookupCalls, acquireCalls,
                 cacheAtStart, ownAtFailure>>
  /\ UNCHANGED loginVars

\* getTokenFromCache() is protected and reached through this: a subclass may
\* supply it.  What such a method can settle with:
OverrideOutcomes ==
  {Resolved(TokenResponse("cache"))}
    \cup {Rejected(e) : e \in LookupErrors}
    \cup {Rejected(criticalError(RemoveError)),
          Rejected(Error("override", <<"wrapped: ">> \o SDK_INTERNAL_ERROR))}

\* getToken() -> this.getTokenFromCache(), dispatched to an overriding method.
StartGetTokenOverride ==
  /\ calls < MaxCalls
  /\ CallSettled
  /\ calls' = calls + 1
  /\ dispatch' = "override"
  /\ chain' = NoChain
  /\ lookupCalls' = 0
  /\ acquire' = "none"
  /\ acquireCalls' = 0
  /\ cacheAtStart' = cache
  /\ ownAtFailure' = {}
  /\ UNCHANGED <<cache, repair>>
  /\ UNCHANGED loginVars

\* The promise the overriding getTokenFromCache() returned settles.
OverrideSettles ==
  /\ dispatch = "override"
  /\ ~Settled(chain.cacheCatch)
  /\ ~MicrotaskPending
  /\ \E out \in OverrideOutcomes :
       chain' = [chain EXCEPT !.cacheCatch = out]
  /\ UNCHANGED <<cache, calls, dispatch, repair, lookupCalls, acquire,
                 acquireCalls, cacheAtStart, ownAtFailure>>
  /\ UNCHANGED loginVars

\* The program as it stands: getTokenFromCache() is the method of this class.
Next ==
  \/ StartGetToken
  \/ LookupCallback
  \/ CacheThenJob
  \/ CacheCatchJob
  \/ TokenThenJob
  \/ TokenCatchJob
  \/ \E k \in 1..MaxCalls : FindCallback(k)
  \/ \E k \in 1..MaxCalls : RemoveCallback(k)
  \/ \E k \in 1..MaxCalls : RepairThenJob(k)
  \/ \E k \in 1..MaxCalls : RepairCatchJob(k)

Spec == Init /\ [][Next]_vars

\* getToken() against any getTokenFromCache(): the method of this class or an
\* overriding one.
NextOverride ==
  \/ Next
  \/ StartGetTokenOverride
  \/ OverrideSettles
  \/ AcquireCallback

SpecOverride == Init /\ [][NextOverride]_vars

-----------------------------------------------------------------------------
\* Properties of getToken().

\* The repair chain started by the current call.
CurrentRepair == repair[calls]

\* The current call went through getTokenFromCache() of this class and its
\* cache lookup failed.
LookupFailed == dispatch = "code" /\ chain.lookup.state = "rejected"

\* The message of `error` opens with the sentinel: a critical-tier error.
HasSentinelPrefix(error) == startsWith(error.message, SDK_INTERNAL_ERROR)

\* `part` occurs in `message`.
Contains(message, part) ==
  \E i \in 0..(Len(message) - Len(part)) :
    SubSeq(message, i + 1, i + Len(part)) = part

\* C1: getToken() settles either resolved with a token response or rejected
\* with an error; it never resolves with anything else, such as undefined.
C1_TokenOrError ==
  /\ chain.tokenCatch.state = "resolved" => chain.tokenCatch.value.kind = "token"
  /\ chain.tokenCatch.state = "rejected" => chain.tokenCatch.value.kind = "error"

\* C2: with an empty token cache, a settled getToken() has called
\* acquireTokenWithClientCredentials exactly once, and if it resolved, it
\* resolved with the token response the delegate delivered.
C2_EmptyCacheAcquiresOnce ==
  (dispatch = "code" /\ cacheAtStart = {} /\ Settled(chain.tokenCatch))
    => /\ acquireCalls = 1
       /\ chain.tokenCatch.state = "resolved"
            => chain.tokenCatch.value = TokenResponse("live")

\* C3: when the cache lookup succeeds, no promise of the call carries anything
\* but the cached token response, getToken() resolves with it, and the call
\* issues no acquireTokenWithClientCredentials, no cache find and no remove.
C3_CacheHit ==
  (dispatch = "code" /\ chain.lookup.state = "resolved")
    => /\ \A n \in ChainNames :
            Settled(chain[n]) => chain[n] = Resolved(chain.lookup.value)
       /\ acquire = "none" /\ acquireCalls = 0
       /\ CurrentRepair.findCalls = 0 /\ CurrentRepair.removeCalls = 0
       /\ CurrentRepair.find = "none" /\ CurrentRepair.remove = "none"

\* A cache hit has travelled the whole chain: getToken() has resolved.
C3_Witness ==
  /\ dispatch = "code"
  /\ chain.lookup.state = "resolved"
  /\ chain.tokenCatch.state = "resolved"

\* C4: after an ordinary lookup failure with no matching entry found, the
\* repair made no remove call, getTokenFromCache() is rejected with the
\* original lookup error, and a settled getToken() has attempted one live
\* acquisition.
C4_MissWithNoEntries ==
  (/\ LookupFailed
   /\ ~HasSentinelPrefix(chain.lookup.value)
   /\ CurrentRepair.foundNone
   /\ Settled(chain.cacheCatch))
    => /\ CurrentRepair.removeCalls = 0
       /\ chain.cacheCatch = Rejected(chain.lookup.value)
       /\ Settled(chain.tokenCatch) => acquireCalls = 1

\* C5: after a lookup failure whose repair found entries and failed to remove
\* them, a settled getToken() is rejected with a critical error that carries
\* the removal failure's message, and made no live acquisition.
C5_RemoveFailureIsCritical ==
  (/\ LookupFailed
   /\ CurrentRepair.removeFailed
   /\ Settled(chain.tokenCatch))
    => /\ chain.tokenCatch.state = "rejected"
       /\ HasSentinelPrefix(chain.tokenCatch.value)
       /\ Contains(chain.tokenCatch.value.message, RemoveError.message)
       /\ acquireCalls = 0

\* C6: once getTokenFromCache() is rejected with an error whose message starts
\* with the sentinel, getToken() never calls acquireTokenWithClientCredentials
\* and, when it settles, is rejected with that very error.
C6_CriticalErrorShortCircuits ==
  (chain.cacheCatch.state = "rejected" /\ HasSentinelPrefix(chain.cacheCatch.value))
    => /\ acquire = "none" /\ acquireCalls = 0
       /\ Settled(chain.tokenCatch)
            => chain.tokenCatch = Rejected(chain.cacheCatch.value)

\* getToken() has settled after getTokenFromCache() was rejected with a
\* critical error.
C6_Witness ==
  /\ chain.cacheCatch.state = "rejected"
  /\ HasSentinelPrefix(chain.cacheCatch.value)
  /\ chain.tokenCatch.state = "rejected"

\* C7: a repair chain ends in a critical error only if its cache find or its
\* cache remove reported an error; a repair that resolved ends by signalling
\* the original lookup error.
C7_CriticalOnlyWhenRepairFails ==
  \A k \in 1..MaxCalls :
    /\ (repair[k].R2.state = "rejected" /\ HasSentinelPrefix(repair[k].R2.value))
         => (repair[k].findFailed \/ repair[k].removeFailed)
    /\ (repair[k].R0.state = "resolved" /\ Settled(repair[k].R2))
         => repair[k].R2 = Rejected(repair[k].error)

\* C8: when the lookup failed with entries of this client in the cache and
\* neither find nor remove reported an error, a settled getToken() finds the
\* repair resolved, the remove callback fired and those entries gone.
C8_EntriesRemovedBeforeSettle ==
  (/\ LookupFailed
   /\ ownAtFailure # {}
   /\ ~CurrentRepair.findFailed /\ ~CurrentRepair.removeFailed
   /\ Settled(chain.tokenCatch))
    => /\ CurrentRepair.R0.state = "resolved"
       /\ CurrentRepair.remove = "done"
       /\ ownAtFailure \cap cache = {}

\* C9: a cache find is issued only by a call whose lookup has failed, and no
\* find or remove is in flight while a cache lookup is in flight.
C9_RepairNeverOverlapsLookup ==
  /\ (dispatch = "code" /\ CurrentRepair.findCalls > 0) => LookupFailed
  /\ ~ /\ dispatch = "code" /\ ~Settled(chain.lookup)
       /\ \E k \in 1..MaxCalls :
            repair[k].find = "pending" \/ repair[k].remove = "pending"

\* C10: when acquireTokenWithClientCredentials reports an error, getToken() is
\* rejected with that error, and one call issues at most one cache lookup and
\* at most one acquireTokenWithClientCredentials.
C10_AcquireErrorUnchangedNoRetry ==
  /\ acquire = "failed" => chain.tokenCatch = Rejected(AcquireError)
  /\ lookupCalls <= 1
  /\ acquireCalls <= 1

\* The delegate has reported an error and getToken() has settled.
C10_Witness ==
  /\ acquire = "failed"
  /\ acquireCalls = 1
  /\ Settled(chain.tokenCatch)

-----------------------------------------------------------------------------
\* withServicePrincipalSecretWithAuthResponse and the constructor of
\* ApplicationTokenCredentials.

\* A JavaScript value as the constructor's check sees it: its typeof and
\* whether Boolean(value) holds.
JsValue(type, truthy) == [type |-> type, truthy |-> truthy]

EmptyString == JsValue("string", FALSE)

Secrets ==
  { EmptyString, JsValue("string", TRUE), JsValue("undefined", FALSE),
    JsValue("number", TRUE), JsValue("number", FALSE) }

SecretError == Error("constructor", <<"secret must be a non empty string.">>)

\* Variant of secretIsRejected that tests only the type of the secret.
secretIsRejectedTypeOnly(secret) == secret.type # "string"

\* constructor: !Boolean(secret) || typeof secret.valueOf() !== 'string'
secretIsRejected(secret) == ~secret.truthy \/ secret.type # "string"

\* new ApplicationTokenCredentials(...): the check, then super(...).
newApplicationTokenCredentials(secret) ==
  IF secretIsRejected(secret)
    THEN [threw |-> TRUE, error |-> SecretError, baseConstructed |-> FALSE]
    ELSE [threw |-> FALSE, error |-> Undefined, baseConstructed |-> TRUE]

\* Variant of isGraph that takes no audience for graph.
isGraphNever(tokenAudience) == FALSE

\* options.tokenAudience && options.tokenAudience === TokenAudience.graph
isGraph(tokenAudience) == tokenAudience = "graph"

TokenAudiences == {"undefined", "graph"}

\* What getSubscriptionsFromTenants delivers.
SubscriptionList == <<"subscription-1">>

AuthResponse(subscriptions) ==
  [kind |-> "authResponse", credentials |-> "ApplicationTokenCredentials",
   subscriptions |-> subscriptions]

\* What options.tokenCache may be: not given, or a cache of the caller.
TokenCacheOptions == {"", "callerCache"}

\* The constructor of the base class keeps the tokenCache it is given and
\* makes a MemoryCache of its own when it is given none.
credentialTokenCache(tokenCache) ==
  IF tokenCache = "" THEN "MemoryCache" ELSE tokenCache

\* withServicePrincipalSecretWithAuthResponse up to its first await: the
\* credential is constructed and creds.getToken() is called, or the
\* constructor's exception is caught and returned as a rejection.
spCall(secret, tokenAudience, environment) ==
  LET creds == newApplicationTokenCredentials(secret)
  IN IF creds.threw
       THEN [NoSp EXCEPT !.pc = "done", !.secret = secret,
                         !.tokenAudience = tokenAudience,
                         !.graph = isGraph(tokenAudience),
                         !.environment = environment,
                         !.baseConstructed = creds.baseConstructed,
                         !.result = Rejected(creds.error)]
       ELSE [NoSp EXCEPT !.pc = "token", !.secret = secret,
                         !.tokenAudience = tokenAudience,
                         \* the call passes five arguments: no tokenCache
                         !.credentialCache = credentialTokenCache(""),
                         !.graph = isGraph(tokenAudience),
                         !.environment = environment,
                         !.baseConstructed = creds.baseConstructed,
                         !.getTokenCalls = 1]

\* A caller calls withServicePrincipalSecretWithAuthResponse directly.
SpStart ==
  /\ sp.pc = "idle"
  /\ authFile = NoAuthFile(NoInput)
  /\ \E secret \in Secrets, tokenAudience \in TokenAudiences,
        tokenCache \in TokenCacheOptions :
       sp' = [spCall(secret, tokenAudience, <<"Azure">>)
                EXCEPT !.tokenCacheOption = tokenCache]
  /\ UNCHANGED <<tokenVars, authFile, urlCheck, interactive, entry, userPass, device>>

\* result = await creds.getToken(): on success the subscriptions are asked
\* for unless the audience is graph; a rejection is caught and returned.
SpTokenSettles ==
  /\ sp.pc = "token"
  /\ \E ok \in BOOLEAN :
       sp' = IF ~ok
               THEN [sp EXCEPT !.pc = "done",
                               !.result = Rejected(Error("getToken", <<"getToken failed">>))]
             ELSE IF ~sp.graph
               THEN [sp EXCEPT !.pc = "subscriptions", !.tokenObtained = TRUE,
                               !.subscriptionCalls = @ + 1]
             ELSE [sp EXCEPT !.pc = "done", !.tokenObtained = TRUE,
                             !.result = Resolved(AuthResponse(<<>>))]
  /\ UNCHANGED <<tokenVars, authFile, urlCheck, interactive, entry, userPass, device>>

\* subscriptionList = await getSubscriptionsFromTenants(creds, [domain])
SpSubscriptionsSettle ==
  /\ sp.pc = "subscriptions"
  /\ \E ok \in BOOLEAN :
       sp' = IF ok
               THEN [sp EXCEPT !.pc = "done",
                               !.result = Resolved(AuthResponse(SubscriptionList))]
               ELSE [sp EXCEPT !.pc = "done",
                               !.result = Rejected(Error("subscriptions", <<"list failed">>))]
  /\ UNCHANGED <<tokenVars, authFile, urlCheck, interactive, entry, userPass, device>>

\* The credential of the login functions is not the one modelled above: its
\* getToken() chain stays idle while a login function runs.
TokenIdle ==
  /\ cache = {}
  /\ calls = 0
  /\ dispatch = "idle"
  /\ chain = NoChain
  /\ repair = [k \in 1..MaxCalls |-> NoRepair]
  /\ lookupCalls = 0
  /\ acquire = "none"
  /\ acquireCalls = 0
  /\ cacheAtStart = {}
  /\ ownAtFailure = {}

\* C11: a service-principal login whose secret is the empty string is rejected
\* with 'secret must be a non empty string.', the base credential is not
\* constructed, and neither getToken() nor the subscription helper is called.
C11_EmptySecretFailsFirst ==
  (sp.pc # "idle" /\ sp.secret = EmptyString)
    => /\ sp.pc = "done"
       /\ sp.result = Rejected(SecretError)
       /\ ~sp.baseConstructed
       /\ sp.getTokenCalls = 0
       /\ sp.subscriptionCalls = 0

\* The login was called with an empty secret and has been rejected.
C11_Witness ==
  /\ sp.secret = EmptyString
  /\ sp.result.state = "rejected"

-----------------------------------------------------------------------------
\* foundManagementEndpointUrl.  A URL is a sequence of fragments; a fragment
\* is one character or one run of characters that the functions treat alike.

\* Longest URL handed to foundManagementEndpointUrl on its own.
MaxUrlLen == 3

UrlAlphabet == {"a", "A", "/"}

Urls == UNION { [1..n -> UrlAlphabet] : n \in 0..MaxUrlLen }

\* String.prototype.toLowerCase, fragment by fragment.
lowerFragment(c) ==
  CASE c = "A" -> "a"
    [] c = "HTTPS://" -> "https://"
    [] c = "Management.Core." -> "management.core."
    [] c = "Windows" -> "windows"
    [] c = ".NET" -> ".net"
    [] OTHER -> c

toLowerCase(url) == [i \in 1..Len(url) |-> lowerFragment(url[i])]

\* url.endsWith('/')
endsWithSlash(url) == Len(url) > 0 /\ url[Len(url)] = "/"

\* url.endsWith('/') ? url.slice(0, -1) : url
dropTrailingSlash(url) ==
  IF endsWithSlash(url) THEN SubSeq(url, 1, Len(url) - 1) ELSE url

\* Variant of foundManagementEndpointUrl that leaves envUrl's slash in place.
foundManagementEndpointUrlOneSided(authFileUrl, envUrl) ==
  IF Len(authFileUrl) = 0 \/ Len(envUrl) = 0 THEN "threw"
  ELSE IF toLowerCase(dropTrailingSlash(authFileUrl)) = toLowerCase(envUrl)
    THEN "true" ELSE "false"

\* foundManagementEndpointUrl: an empty (or missing) argument throws; else the
\* two URLs are compared without one trailing slash and in lower case.
foundManagementEndpointUrl(authFileUrl, envUrl) ==
  IF Len(authFileUrl) = 0 THEN "threw"
  ELSE IF Len(envUrl) = 0 THEN "threw"
  ELSE IF toLowerCase(dropTrailingSlash(authFileUrl))
            = toLowerCase(dropTrailingSlash(envUrl))
    THEN "true" ELSE "false"

\* Nothing but the comparison runs.
InitUrl ==
  /\ TokenIdle
  /\ sp = NoSp
  /\ authFile = NoAuthFile(NoInput)
  /\ interactive = NoInteractive
  /\ entry = NoEntry
  /\ userPass = NoUserPass
  /\ device = NoDevice
  /\ urlCheck \in [authFileUrl : Urls, envUrl : Urls, result : {"none"}]

\* One call of foundManagementEndpointUrl.
UrlCompare ==
  /\ urlCheck.result = "none"
  /\ urlCheck' = [urlCheck EXCEPT !.result =
                    foundManagementEndpointUrl(urlCheck.authFileUrl, urlCheck.envUrl)]
  /\ UNCHANGED <<tokenVars, sp, authFile, interactive, entry, userPass, device>>

NextUrl == UrlCompare

SpecUrl == InitUrl /\ [][NextUrl]_vars

\* Two URLs that differ at most in letter case and in one of them having a
\* trailing slash the other lacks.
SameModuloCaseAndSlash(x, y) ==
  LET lx == toLowerCase(x)
      ly == toLowerCase(y)
  IN \/ lx = ly
     \/ ~endsWithSlash(ly) /\ lx = Append(ly, "/")
     \/ ~endsWithSlash(lx) /\ ly = Append(lx, "/")

\* C16: for non-empty URLs the comparison answers true exactly when the two
\* differ at most in letter case and in a trailing slash, whichever argument
\* carries the difference, and false otherwise.
C16_EqualModuloCaseAndSlash ==
  (/\ urlCheck.result # "none"
   /\ Len(urlCheck.authFileUrl) > 0 /\ Len(urlCheck.envUrl) > 0)
    => /\ urlCheck.result \in {"true", "false"}
       /\ urlCheck.result = "true"
            <=> SameModuloCaseAndSlash(urlCheck.authFileUrl, urlCheck.envUrl)

\* The comparison has answered true for an envUrl that carries a trailing
\* slash and a letter case the authFileUrl does not.
C16_Witness ==
  /\ urlCheck.result = "true"
  /\ endsWithSlash(urlCheck.envUrl) /\ ~endsWithSlash(urlCheck.authFileUrl)
  /\ toLowerCase(urlCheck.authFileUrl) # urlCheck.authFileUrl
  /\ toLowerCase(urlCheck.envUrl) = urlCheck.envUrl

-----------------------------------------------------------------------------
\* withAuthFileWithAuthResponse.

RequiredFields ==
  { "clientId", "clientSecret", "subscriptionId", "tenantId",
    "activeDirectoryEndpointUrl", "resourceManagerEndpointUrl",
    "activeDirectoryGraphResourceId", "sqlManagementEndpointUrl" }

AuthFileFields == RequiredFields \cup {"managementEndpointUrl"}

\* `"<field>" is missing from the auth file: <filePath>.`
MissingFieldError(field, filePath) ==
  Error("validate",
        <<"\"", field, "\" is missing from the auth file: ", filePath, ".">>)

\* Variant of validateAuthFileContent that tests tenantId before subscriptionId.
validateAuthFileContentReordered(isNull, present, filePath) ==
  IF isNull THEN Error("validate", <<"Please provide a credsObj to validate.">>)
  ELSE IF filePath = "" THEN Error("validate", <<"Please provide a filePath.">>)
  ELSE IF "clientId" \notin present THEN MissingFieldError("clientId", filePath)
  ELSE IF "clientSecret" \notin present THEN MissingFieldError("clientSecret", filePath)
  ELSE IF "tenantId" \notin present THEN MissingFieldError("tenantId", filePath)
  ELSE IF "subscriptionId" \notin present THEN MissingFieldError("subscriptionId", filePath)
  ELSE IF "activeDirectoryEndpointUrl" \notin present
    THEN MissingFieldError("activeDirectoryEndpointUrl", filePath)
  ELSE IF "resourceManagerEndpointUrl" \notin present
    THEN MissingFieldError("resourceManagerEndpointUrl", filePath)
  ELSE IF "activeDirectoryGraphResourceId" \notin present
    THEN MissingFieldError("activeDirectoryGraphResourceId", filePath)
  ELSE IF "sqlManagementEndpointUrl" \notin present
    THEN MissingFieldError("sqlManagementEndpointUrl", filePath)
  ELSE Undefined

\* Variant of validateAuthFileContent without the last test.
validateAuthFileContentNoSql(isNull, present, filePath) ==
  IF isNull THEN Error("validate", <<"Please provide a credsObj to validate.">>)
  ELSE IF filePath = "" THEN Error("validate", <<"Please provide a filePath.">>)
  ELSE IF "clientId" \notin present THEN MissingFieldError("clientId", filePath)
  ELSE IF "clientSecret" \notin present THEN MissingFieldError("clientSecret", filePath)
  ELSE IF "subscriptionId" \notin present THEN MissingFieldError("subscriptionId", filePath)
  ELSE IF "tenantId" \notin present THEN MissingFieldError("tenantId", filePath)
  ELSE IF "activeDirectoryEndpointUrl" \notin present
    THEN MissingFieldError("activeDirectoryEndpointUrl", filePath)
  ELSE IF "resourceManagerEndpointUrl" \notin present
    THEN MissingFieldError("resourceManagerEndpointUrl", filePath)
  ELSE IF "activeDirectoryGraphResourceId" \notin present
    THEN MissingFieldError("activeDirectoryGraphResourceId", filePath)
  ELSE Undefined

\* validateAuthFileContent: the error it throws, or Undefined when it returns.
\* `present` holds the fields of credsObj whose value is truthy.
validateAuthFileContent(isNull, present, filePath) ==
  IF isNull THEN Error("validate", <<"Please provide a credsObj to validate.">>)
  ELSE IF filePath = "" THEN Error("validate", <<"Please provide a filePath.">>)
  ELSE IF "clientId" \notin present THEN MissingFieldError("clientId", filePath)
  ELSE IF "clientSecret" \notin present THEN MissingFieldError("clientSecret", filePath)
  ELSE IF "subscriptionId" \notin present THEN MissingFieldError("subscriptionId", filePath)
  ELSE IF "tenantId" \notin present THEN MissingFieldError("tenantId", filePath)
  ELSE IF "activeDirectoryEndpointUrl" \notin present
    THEN MissingFieldError("activeDirectoryEndpointUrl", filePath)
  ELSE IF "resourceManagerEndpointUrl" \notin present
    THEN MissingFieldError("resourceManagerEndpointUrl", filePath)
  ELSE IF "activeDirectoryGraphResourceId" \notin present
    THEN MissingFieldError("activeDirectoryGraphResourceId", filePath)
  ELSE IF "sqlManagementEndpointUrl" \notin present
    THEN MissingFieldError("sqlManagementEndpointUrl", filePath)
  ELSE Undefined

\* Variant of readAndValidate that does not validate what it parsed.
readAndValidateUnchecked(input, filePath) ==
  CASE input.content = "unreadable" -> Error("fs", <<"ENOENT: no such file or directory">>)
    [] input.content = "unparsable" -> Error("JSON", <<"Unexpected token in JSON">>)
    [] OTHER -> Undefined

\* The try block: readFileSync, JSON.parse, validateAuthFileContent.
readAndValidate(input, filePath) ==
  CASE input.content = "unreadable" -> Error("fs", <<"ENOENT: no such file or directory">>)
    [] input.content = "unparsable" -> Error("JSON", <<"Unexpected token in JSON">>)
    [] OTHER -> validateAuthFileContent(input.content = "null", input.present, filePath)

\* options.filePath || process.env[AuthConstants.AZURE_AUTH_LOCATION]
filePathOf(input) ==
  IF input.filePathOption # "" THEN input.filePathOption ELSE input.envLocation

\* Variant of subscriptionEnvVariableName that ignores the option.
subscriptionEnvVariableNameDefault(option) == "AZURE_SUBSCRIPTION_ID"

\* options.subscriptionEnvVariableName || 'AZURE_SUBSCRIPTION_ID'
subscriptionEnvVariableName(option) ==
  IF option # "" THEN option ELSE "AZURE_SUBSCRIPTION_ID"

\* credsObj.subscriptionId of the file.
SubscriptionIdOfFile == "subscription-of-file"

\* The environments AzureEnvironment holds before any is added, in the order
\* of Object.keys, each with its managementEndpointUrl.
BuiltInOrder == <<"Azure", "AzureChina", "AzureUSGovernment", "AzureGermanCloud">>

builtInManagementUrl(name) ==
  CASE name = "Azure" -> <<"https://", "management.core.", "windows", ".net">>
    [] name = "AzureChina" -> <<"https://", "management.core.", "chinacloudapi", ".cn">>
    [] name = "AzureUSGovernment" -> <<"https://", "management.core.", "usgovcloudapi", ".net">>
    [] name = "AzureGermanCloud" -> <<"https://", "management.core.", "cloudapi", ".de">>

\* URLs an auth file may carry as managementEndpointUrl.
ManagementUrls ==
  { <<"https://", "management.core.", "windows", ".net">>,
    <<"HTTPS://", "Management.Core.", "Windows", ".NET", "/">>,
    <<"https://", "management.core.", "contoso", ".com", "/">>,
    <<"https://", "management.core.", ".com">>,
    <<"https://", "management.", "contoso", ".com">> }

\* URLs an auth file may carry as resourceManagerEndpointUrl.
ResourceManagerUrls ==
  { <<"https://", "management.", "azure", ".com", "/">>,
    <<"https://", "management.core.", "chinacloudapi", ".cn", "/">> }

\* Variant of findKnownEnvironment that compares the URLs as they are.
findKnownEnvironmentExact(url) ==
  LET hits == { i \in 1..Len(BuiltInOrder) : url = builtInManagementUrl(BuiltInOrder[i]) }
  IN IF hits = {} THEN <<>>
     ELSE <<BuiltInOrder[CHOOSE i \in hits : \A j \in hits : i <= j]>>

\* The loop over Object.keys(AzureEnvironment): the name of the first
\* environment whose managementEndpointUrl foundManagementEndpointUrl accepts,
\* or the empty name.
findKnownEnvironment(url) ==
  LET hits == { i \in 1..Len(BuiltInOrder) :
                  foundManagementEndpointUrl(url, builtInManagementUrl(BuiltInOrder[i])) = "true" }
  IN IF hits = {} THEN <<>>
     ELSE <<BuiltInOrder[CHOOSE i \in hits : \A j \in hits : i <= j]>>

\* Fragments that open with a dot.
DotFragments == {".net", ".NET", ".com", ".cn", ".de"}

\* url.match(/.*management\.core\.(.*)\..*/i): whether it matches and, if so,
\* what the group captures (greedily: up to the last dot).
matchLogicalName(url) ==
  LET starts == { i \in 1..Len(url) : lowerFragment(url[i]) = "management.core." }
      dots(i) == { k \in (i + 1)..Len(url) : url[k] \in DotFragments }
      usable == { i \in starts : dots(i) # {} }
  IN IF usable = {} THEN [matched |-> FALSE, group |-> <<>>]
     ELSE LET i == CHOOSE x \in usable : \A y \in usable : y <= x
              k == CHOOSE x \in dots(i) : \A y \in dots(i) : y <= x
          IN [matched |-> TRUE, group |-> SubSeq(url, i + 1, k - 1)]

\* What the call may be given: the options, process.env.AZURE_AUTH_LOCATION
\* and the file.  A field that is absent carries no URL.
AuthFileInputs ==
  { i \in [ filePathOption : {"", "/auth.json"},
            envLocation : {"", "/env/auth.json"},
            subscriptionOption : {"", "MY_SUBSCRIPTION"},
            content : {"unreadable", "unparsable", "null", "object"},
            present : SUBSET AuthFileFields,
            managementEndpointUrl : ManagementUrls \cup {<<>>},
            resourceManagerEndpointUrl : ResourceManagerUrls \cup {<<>>} ] :
      /\ i.content # "object" => i.present = {}
      /\ (i.managementEndpointUrl = <<>>) <=> ("managementEndpointUrl" \notin i.present)
      /\ (i.resourceManagerEndpointUrl = <<>>)
           <=> ("resourceManagerEndpointUrl" \notin i.present) }

\* credsObj.managementEndpointUrl after the default is applied.
managementUrlOf(input) ==
  IF "managementEndpointUrl" \in input.present
    THEN input.managementEndpointUrl
    ELSE input.resourceManagerEndpointUrl

\* withAuthFileWithAuthResponse, from its call to the promise it returns.
AuthFileStart ==
  /\ authFile.pc = "idle"
  /\ sp.pc = "idle"
  /\ LET input == authFile.input
         filePath == filePathOf(input)
         name == subscriptionEnvVariableName(input.subscriptionOption)
         err == readAndValidate(input, filePath)
         url == managementUrlOf(input)
         envFound == findKnownEnvironment(url)
         match == matchLogicalName(url)
         loaded == [authFile EXCEPT !.validated = TRUE,
                                    !.env[name] = SubscriptionIdOfFile]
         secret == JsValue("string", TRUE)
     IN IF filePath = ""
          THEN /\ authFile' = [authFile EXCEPT !.pc = "failed", !.error =
                    Error("withAuthFile",
                          <<"Either provide an absolute file path to the auth file or set/export the environment variable - ",
                            "AZURE_AUTH_LOCATION", ".">>)]
               /\ UNCHANGED sp
        ELSE IF err # Undefined
          THEN /\ authFile' = [authFile EXCEPT !.pc = "failed", !.error = err]
               /\ UNCHANGED sp
        ELSE IF envFound # <<>>
          THEN /\ authFile' = [loaded EXCEPT !.pc = "delegated"]
               /\ sp' = spCall(secret, "undefined", envFound)
        ELSE IF ~match.matched
          THEN /\ authFile' = [loaded EXCEPT !.pc = "failed", !.error =
                    Error("TypeError", <<"Cannot read property '1' of null">>)]
               /\ UNCHANGED sp
        ELSE LET envName == IF match.group # <<>> THEN match.group ELSE <<filePath>>
             IN /\ authFile' = [loaded EXCEPT !.pc = "delegated", !.added = envName,
                                              !.addCalls = @ + 1]
                /\ sp' = spCall(secret, "undefined", envName)
  /\ UNCHANGED <<tokenVars, urlCheck, interactive, entry, userPass, device>>

\* The promise withAuthFileWithAuthResponse returned.
AuthFileResult ==
  CASE authFile.pc = "failed" -> Rejected(authFile.error)
    [] authFile.pc = "delegated" -> sp.result
    [] OTHER -> Pending

\* A caller either calls withServicePrincipalSecretWithAuthResponse itself
\* (no auth-file input) or calls withAuthFileWithAuthResponse.
InitLogin ==
  /\ TokenIdle
  /\ sp = NoSp
  /\ urlCheck = NoUrlCheck
  /\ interactive = NoInteractive
  /\ entry = NoEntry
  /\ userPass = NoUserPass
  /\ device = NoDevice
  /\ \E input \in AuthFileInputs \cup {NoInput} : authFile = NoAuthFile(input)

NextLogin ==
  \/ SpStart
  \/ SpTokenSettles
  \/ SpSubscriptionsSettle
  \/ AuthFileStart

SpecLogin == InitLogin /\ [][NextLogin]_vars

-----------------------------------------------------------------------------
\* Properties of the auth-file flow.

\* The required fields in the order validateAuthFileContent tests them.
CheckOrder ==
  << "clientId", "clientSecret", "subscriptionId", "tenantId",
     "activeDirectoryEndpointUrl", "resourceManagerEndpointUrl",
     "activeDirectoryGraphResourceId", "sqlManagementEndpointUrl" >>

FirstMissing(present) ==
  LET missing == { i \in 1..Len(CheckOrder) : CheckOrder[i] \notin present }
  IN CheckOrder[CHOOSE i \in missing : \A j \in missing : i <= j]

\* The descriptor fields an error message names.
NamedFields(error) ==
  { f \in AuthFileFields : \E i \in 1..Len(error.message) : error.message[i] = f }

\* withAuthFileWithAuthResponse ran, found a path and read a JSON object.
DescriptorRead ==
  /\ authFile.pc # "idle"
  /\ filePathOf(authFile.input) # ""
  /\ authFile.input.content = "object"

\* The descriptor that was read has every required field.
PassedValidation == DescriptorRead /\ RequiredFields \subseteq authFile.input.present

\* The built-in environments whose management endpoint equals url modulo
\* case and one trailing slash.
KnownMatches(url) ==
  { i \in 1..Len(BuiltInOrder) :
      SameModuloCaseAndSlash(url, builtInManagementUrl(BuiltInOrder[i])) }

\* C14: a descriptor missing one or more required fields is rejected with an
\* error that names the first missing field of the check order and no other
\* field.
C14_FirstMissingFieldNamed ==
  (DescriptorRead /\ ~(RequiredFields \subseteq authFile.input.present))
    => /\ authFile.pc = "failed"
       /\ ~authFile.validated
       /\ NamedFields(authFile.error) = {FirstMissing(authFile.input.present)}
       /\ sp.pc = "idle"

\* A descriptor missing subscriptionId and tenantId was rejected naming
\* subscriptionId.
C14_Witness ==
  /\ DescriptorRead
  /\ RequiredFields \ authFile.input.present = {"subscriptionId", "tenantId"}
  /\ authFile.pc = "failed"
  /\ NamedFields(authFile.error) = {"subscriptionId"}

\* The seven fields "client id, client secret, subscription id, tenant id and
\* three endpoint URLs".
SevenFields ==
  { "clientId", "clientSecret", "subscriptionId", "tenantId",
    "activeDirectoryEndpointUrl", "resourceManagerEndpointUrl",
    "sqlManagementEndpointUrl" }

\* C15 as stated: a descriptor in which the seven fields are present passes
\* validation whatever other fields are absent.
C15_SevenFieldsSuffice ==
  (DescriptorRead /\ SevenFields \subseteq authFile.input.present)
    => authFile.validated

\* C15: a descriptor passes validation exactly when the eight required fields
\* (the seven and activeDirectoryGraphResourceId) are present; the absence of
\* managementEndpointUrl never makes validation fail.
C15_EightFieldsRequired ==
  DescriptorRead
    => (authFile.validated <=> RequiredFields \subseteq authFile.input.present)

\* A descriptor with the eight required fields and no managementEndpointUrl
\* passed validation.
C15_Witness ==
  /\ DescriptorRead
  /\ authFile.input.present = RequiredFields
  /\ authFile.validated

\* C17: a validated descriptor whose management endpoint (or, without that
\* field, its resourceManagerEndpointUrl) equals a built-in environment's
\* endpoint modulo case and trailing slash logs in with that built-in
\* environment, and AzureEnvironment.add is not called.
C17_KnownEnvironmentReused ==
  (PassedValidation /\ KnownMatches(managementUrlOf(authFile.input)) # {})
    => /\ authFile.pc = "delegated"
       /\ sp.pc # "idle"
       /\ \E i \in KnownMatches(managementUrlOf(authFile.input)) :
            sp.environment = <<BuiltInOrder[i]>>
       /\ authFile.addCalls = 0
       /\ authFile.added = <<>>

\* A descriptor whose URL differs from Azure's in case and trailing slash
\* logged in with Azure.
C17_Witness ==
  /\ PassedValidation
  /\ "managementEndpointUrl" \in authFile.input.present
  /\ authFile.input.managementEndpointUrl
       = <<"HTTPS://", "Management.Core.", "Windows", ".NET", "/">>
  /\ authFile.pc = "delegated"
  /\ sp.environment = <<"Azure">>
  /\ authFile.addCalls = 0

\* C18: a validated descriptor whose management endpoint matches no known
\* environment registers one new environment and logs in with it; the load
\* does not fail.
C18_UnknownEnvironmentSynthesized ==
  (PassedValidation /\ KnownMatches(managementUrlOf(authFile.input)) = {})
    => /\ authFile.pc = "delegated"
       /\ authFile.addCalls = 1
       /\ authFile.added # <<>>
       /\ sp.pc # "idle"
       /\ sp.environment = authFile.added

\* C19: once a descriptor has passed validation, the environment variable
\* named by options.subscriptionEnvVariableName (AZURE_SUBSCRIPTION_ID without
\* the option) holds the file's subscriptionId, in every later state and
\* whatever the login does.
C19_SubscriptionEnvSet ==
  PassedValidation
    => LET name == IF authFile.input.subscriptionOption # ""
                     THEN authFile.input.subscriptionOption
                     ELSE "AZURE_SUBSCRIPTION_ID"
       IN authFile.env[name] = SubscriptionIdOfFile

\* The variable named by the option holds the subscriptionId after the
\* service-principal login was rejected.
C19_Witness ==
  /\ PassedValidation
  /\ authFile.input.subscriptionOption = "MY_SUBSCRIPTION"
  /\ authFile.env["MY_SUBSCRIPTION"] = SubscriptionIdOfFile
  /\ authFile.pc = "delegated"
  /\ sp.pc = "done"
  /\ sp.result.state = "rejected"

-----------------------------------------------------------------------------
\* withInteractiveWithAuthResponse.  interactive.trace lists, in order, the
\* calls made to the provider and to the two places a message can be shown.

\* tokenResponse.userId of the token responses the provider may deliver.
UserIds == {"alice@contoso.com", "bob@contoso.com"}

\* new DeviceTokenCredentials(clientId, domain, username, ...): a falsy
\* username becomes "user@example.com".
newDeviceTokenCredentials(username) ==
  [kind |-> "DeviceTokenCredentials",
   username |-> IF username = "" THEN "user@example.com" ELSE username]

\* Variant of displayUserCode that also writes to the console when a logger
\* is supplied.
displayUserCodeBoth(logger) ==
  IF logger THEN <<"userCodeResponseLogger", "console.log">> ELSE <<"console.log">>

\* The callback of acquireUserCode shows userCodeResponse.message.
displayUserCode(logger) ==
  IF logger THEN <<"userCodeResponseLogger">> ELSE <<"console.log">>

\* The call: options are defaulted, the getUserCode promise is built (its
\* executor calls acquireUserCode at once, which may throw) and the four
\* .then() are attached.
InteractiveStart ==
  /\ interactive.pc = "idle"
  /\ \E logger \in BOOLEAN, tokenAudience \in TokenAudiences, threw \in BOOLEAN :
       LET called == [interactive EXCEPT !.logger = logger,
                                         !.tokenAudience = tokenAudience,
                                         !.graph = isGraph(tokenAudience),
                                         !.trace = <<"acquireUserCode">>]
       IN interactive' =
            IF threw
              THEN [called EXCEPT !.pc = "none",
                      !.userCodeError = Error("acquireUserCode", <<"threw">>),
                      !.getUserCode = Rejected(Error("acquireUserCode", <<"threw">>))]
              ELSE [called EXCEPT !.pc = "userCode"]
  /\ UNCHANGED <<tokenVars, sp, authFile, urlCheck, entry, userPass, device>>

\* The callback given to acquireUserCode.
UserCodeCallback ==
  /\ interactive.pc = "userCode"
  /\ \E err \in {Undefined, Error("acquireUserCode", <<"user code request failed">>)} :
       interactive' =
         IF err # Undefined
           THEN [interactive EXCEPT !.pc = "none", !.userCodeError = err,
                                    !.getUserCode = Rejected(err)]
           ELSE [interactive EXCEPT !.pc = "none",
                   !.trace = @ \o displayUserCode(interactive.logger),
                   !.getUserCode = Resolved([kind |-> "userCodeResponse"])]
  /\ UNCHANGED <<tokenVars, sp, authFile, urlCheck, entry, userPass, device>>

\* The reaction of the first .then(): call acquireTokenWithDeviceCode.
DeviceCodeJob ==
  /\ Settled(interactive.getUserCode)
  /\ interactive.chain["token"] = Pending
  /\ interactive.pc = "none"
  /\ interactive' =
       IF interactive.getUserCode.state = "rejected"
         THEN [interactive EXCEPT !.chain["token"] = interactive.getUserCode]
         ELSE [interactive EXCEPT !.pc = "deviceCode",
                                  !.trace = @ \o <<"acquireTokenWithDeviceCode">>]
  /\ UNCHANGED <<tokenVars, sp, authFile, urlCheck, entry, userPass, device>>

\* The callback given to acquireTokenWithDeviceCode.
DeviceCodeCallback ==
  /\ interactive.pc = "deviceCode"
  /\ \E userId \in UserIds \cup {""} :
       interactive' =
         IF userId = ""
           THEN [interactive EXCEPT !.pc = "none", !.chain["token"] =
                   Rejected(Error("acquireTokenWithDeviceCode", <<"polling failed">>))]
           ELSE LET options == [interactive.options EXCEPT !.username = userId]
                IN [interactive EXCEPT !.pc = "none", !.userId = userId,
                      !.options = options,
                      !.chain["token"] =
                        Resolved(newDeviceTokenCredentials(options.userName))]
  /\ UNCHANGED <<tokenVars, sp, authFile, urlCheck, entry, userPass, device>>

\* The reaction of the second .then(): buildTenantList(creds).
TenantListJob ==
  /\ Settled(interactive.chain["token"])
  /\ interactive.chain["tenants"] = Pending
  /\ interactive.pc = "none"
  /\ interactive' =
       IF interactive.chain["token"].state = "rejected"
         THEN [interactive EXCEPT !.chain["tenants"] = interactive.chain["token"]]
         ELSE [interactive EXCEPT !.pc = "tenantList"]
  /\ UNCHANGED <<tokenVars, sp, authFile, urlCheck, entry, userPass, device>>

\* The promise of buildTenantList settles.
TenantListSettles ==
  /\ interactive.pc = "tenantList"
  /\ \E ok \in BOOLEAN :
       interactive' = [interactive EXCEPT !.pc = "none", !.chain["tenants"] =
         IF ok THEN Resolved([kind |-> "tenants"])
               ELSE Rejected(Error("buildTenantList", <<"tenants failed">>))]
  /\ UNCHANGED <<tokenVars, sp, authFile, urlCheck, entry, userPass, device>>

\* The reaction of the third .then(): getSubscriptions(creds, tenants).
SubscriptionsJob ==
  /\ Settled(interactive.chain["tenants"])
  /\ interactive.chain["subscriptions"] = Pending
  /\ interactive.pc = "none"
  /\ interactive' =
       IF interactive.chain["tenants"].state = "rejected"
         THEN [interactive EXCEPT !.chain["subscriptions"] = interactive.chain["tenants"]]
       ELSE IF interactive.graph
         THEN [interactive EXCEPT !.chain["subscriptions"] =
                 Resolved([kind |-> "subscriptions", list |-> <<>>])]
       ELSE [interactive EXCEPT !.pc = "subscriptionList", !.subscriptionCalls = @ + 1]
  /\ UNCHANGED <<tokenVars, sp, authFile, urlCheck, entry, userPass, device>>

\* The promise of getSubscriptionsFromTenants settles.
SubscriptionListSettles ==
  /\ interactive.pc = "subscriptionList"
  /\ \E ok \in BOOLEAN :
       interactive' = [interactive EXCEPT !.pc = "none", !.chain["subscriptions"] =
         IF ok THEN Resolved([kind |-> "subscriptions", list |-> SubscriptionList])
               ELSE Rejected(Error("subscriptions", <<"list failed">>))]
  /\ UNCHANGED <<tokenVars, sp, authFile, urlCheck, entry, userPass, device>>

\* The reaction of the fourth .then(): { credentials: creds, subscriptions }.
\* The promise the function returns follows this one.
ResultJob ==
  /\ Settled(interactive.chain["subscriptions"])
  /\ interactive.chain["result"] = Pending
  /\ interactive' =
       IF interactive.chain["subscriptions"].state = "rejected"
         THEN [interactive EXCEPT !.chain["result"] = interactive.chain["subscriptions"]]
         ELSE [interactive EXCEPT !.chain["result"] =
                 Resolved([kind |-> "authResponse",
                           credentials |-> interactive.chain["token"].value,
                           subscriptions |-> interactive.chain["subscriptions"].value.list])]
  /\ UNCHANGED <<tokenVars, sp, authFile, urlCheck, entry, userPass, device>>

InitInteractive == TokenIdle /\ LoginIdle

NextInteractive ==
  \/ InteractiveStart
  \/ UserCodeCallback
  \/ DeviceCodeJob
  \/ DeviceCodeCallback
  \/ TenantListJob
  \/ TenantListSettles
  \/ SubscriptionsJob
  \/ SubscriptionListSettles
  \/ ResultJob

SpecInteractive == InitInteractive /\ [][NextInteractive]_vars

\* The login succeeded: the returned promise is resolved.
InteractiveSucceeded == interactive.chain["result"].state = "resolved"

\* C12: after a successful interactive login the credential handed to the
\* caller has the username tokenResponse.userId.
C12_UsernameIsUserId ==
  InteractiveSucceeded
    => interactive.chain["result"].value.credentials.username = interactive.userId

\* What the flow shows the message on.
DisplayOf(logger) == IF logger THEN "userCodeResponseLogger" ELSE "console.log"

IsPrefix(s, t) == Len(s) <= Len(t) /\ s = SubSeq(t, 1, Len(s))

\* C13: the flow calls acquireUserCode, then shows the message once (on the
\* logger when supplied, else on the console), then calls
\* acquireTokenWithDeviceCode, each at most once and in this order; when
\* acquireUserCode fails nothing is shown, acquireTokenWithDeviceCode is not
\* called and the returned promise is rejected with that very error.
C13_InteractiveOrder ==
  /\ IsPrefix(interactive.trace,
              <<"acquireUserCode", DisplayOf(interactive.logger),
                "acquireTokenWithDeviceCode">>)
  /\ interactive.userCodeError # Undefined
       => /\ interactive.trace = <<"acquireUserCode">>
          /\ interactive.pc = "none"
          /\ \A n \in DOMAIN interactive.chain :
               interactive.chain[n] \in {Pending, Rejected(interactive.userCodeError)}

\* The device-code call was made after the message went to the logger.
C13_Witness ==
  /\ interactive.logger
  /\ interactive.trace = <<"acquireUserCode", "userCodeResponseLogger",
                           "acquireTokenWithDeviceCode">>

\* The user-code request failed and the returned promise is rejected.
C13_WitnessFailure ==
  /\ interactive.userCodeError # Undefined
  /\ interactive.chain["result"] = Rejected(interactive.userCodeError)

-----------------------------------------------------------------------------
\* The public entry points.  Each is called once without a callback and once
\* with one, with the same arguments; entry.flow is what the underlying flow
\* (the ...WithAuthResponse function, or _withMSI) does for those arguments.

EntryPoints ==
  {"withAuthFile", "interactive", "withServicePrincipalSecret",
   "withUsernamePassword", "withMSI"}

Null == [kind |-> "null", src |-> "none", message |-> NoMessage]

Credentials(fn) == [kind |-> "credentials", src |-> fn, message |-> NoMessage]

Subscriptions(list) == [kind |-> "subscriptions", src |-> "none", message |-> list]

\* What the underlying flow of fn may settle with.
FlowOutcomes(fn) ==
  IF fn = "withMSI"
    THEN { Resolved(TokenResponse("msi")),
           Rejected(Error("msi", <<"MSI request failed">>)) }
    ELSE { Resolved([kind |-> "authResponse", credentials |-> Credentials(fn),
                     subscriptions |-> Subscriptions(list)]) :
             list \in {<<>>, SubscriptionList} }
         \cup { Rejected(Error(fn, <<"login failed">>)), Rejected(SecretError),
                Rejected(Error("TypeError", <<"Cannot read property '1' of null">>)) }

\* Variant of promiseThen that hands the whole AuthResponse on.
promiseThenWhole(authRes) == authRes

\* .then((authRes) => Promise.resolve(authRes.credentials))
promiseThen(authRes) == authRes.credentials

\* The function given to msRest.promiseToCallback(...): the arguments it
\* passes to cb.
callbackArguments(fn, err, data) ==
  IF err # Undefined THEN <<err>>
  ELSE IF fn = "withMSI" THEN <<Null, data>>
  ELSE <<Null, data.credentials, data.subscriptions>>

\* The entry point is called in both forms.  The ...WithAuthResponse
\* functions are async and never throw; _withMSI constructs the credential
\* before it returns a promise and may throw.
EntryCall ==
  /\ entry.fn = "none"
  /\ \E fn \in EntryPoints, threw \in BOOLEAN :
       /\ threw => fn = "withMSI"
       /\ entry' = [entry EXCEPT !.fn = fn, !.threw = threw]
  /\ UNCHANGED <<tokenVars, sp, authFile, urlCheck, interactive, userPass, device>>

\* The underlying flow settles.
FlowSettles ==
  /\ entry.fn # "none"
  /\ ~entry.threw
  /\ entry.flow = Pending
  /\ \E outcome \in FlowOutcomes(entry.fn) : entry' = [entry EXCEPT !.flow = outcome]
  /\ UNCHANGED <<tokenVars, sp, authFile, urlCheck, interactive, userPass, device>>

\* Promise form: the reaction of .then().
EntryThenJob ==
  /\ entry.fn \notin {"none", "withMSI"}
  /\ Settled(entry.flow)
  /\ entry.thenPromise = Pending
  /\ entry' = [entry EXCEPT !.thenPromise =
                 IF entry.flow.state = "resolved"
                   THEN Resolved(promiseThen(entry.flow.value))
                   ELSE entry.flow]
  /\ UNCHANGED <<tokenVars, sp, authFile, urlCheck, interactive, userPass, device>>

\* Promise form: the reaction of .catch((err) => Promise.reject(err)).
EntryCatchJob ==
  /\ entry.fn \notin {"none", "withMSI"}
  /\ Settled(entry.thenPromise)
  /\ entry.promise = Pending
  /\ entry' = [entry EXCEPT !.promise =
                 IF entry.thenPromise.state = "rejected"
                   THEN Rejected(entry.thenPromise.value)
                   ELSE entry.thenPromise]
  /\ UNCHANGED <<tokenVars, sp, authFile, urlCheck, interactive, userPass, device>>

\* Callback form: promiseToCallback calls the wrapper with (undefined, data)
\* or (err), and the wrapper calls cb.
EntryCallbackJob ==
  /\ entry.fn # "none"
  /\ Settled(entry.flow)
  /\ entry.callbackCalls = 0
  /\ entry' = [entry EXCEPT !.callbackCalls = 1, !.callbackArgs =
                 IF entry.flow.state = "rejected"
                   THEN callbackArguments(entry.fn, entry.flow.value, Undefined)
                   ELSE callbackArguments(entry.fn, Undefined, entry.flow.value)]
  /\ UNCHANGED <<tokenVars, sp, authFile, urlCheck, interactive, userPass, device>>

\* The promise the promise form returned: withMSI returns _withMSI's.
PromiseForm == IF entry.fn = "withMSI" THEN entry.flow ELSE entry.promise

InitEntry == TokenIdle /\ LoginIdle

NextEntry ==
  \/ EntryCall
  \/ FlowSettles
  \/ EntryThenJob
  \/ EntryCatchJob
  \/ EntryCallbackJob

SpecEntry == InitEntry /\ [][NextEntry]_vars

\* Both forms have delivered.
BothDelivered == Settled(PromiseForm) /\ entry.callbackCalls = 1

\* C20 as stated: the value the promise resolves with is the success
\* arguments of the callback, and the error it rejects with is the error
\* passed to the callback.
C20_IdenticalPayloads ==
  BothDelivered
    => IF PromiseForm.state = "rejected"
         THEN entry.callbackArgs = <<PromiseForm.value>>
         ELSE Tail(entry.callbackArgs) = <<PromiseForm.value>>

\* C20: the error the promise rejects with is the one argument of the
\* callback; the value it resolves with is the callback's first success
\* argument, which for withMSI is the only one and for the four login entry
\* points is followed by the subscriptions of the flow.
C20_CredentialsAgreeSubscriptionsExtra ==
  BothDelivered
    => IF PromiseForm.state = "rejected"
         THEN /\ entry.callbackArgs = <<PromiseForm.value>>
              /\ PromiseForm.value = entry.flow.value
         ELSE /\ entry.callbackArgs[1] = Null
              /\ entry.callbackArgs[2] = PromiseForm.value
              /\ IF entry.fn = "withMSI"
                   THEN /\ Len(entry.callbackArgs) = 2
                        /\ PromiseForm.value = entry.flow.value
                   ELSE /\ Len(entry.callbackArgs) = 3
                        /\ PromiseForm.value = entry.flow.value.credentials
                        /\ entry.callbackArgs[3] = entry.flow.value.subscriptions

\* A login entry point delivered credentials to both forms and a non-empty
\* subscription list to the callback.
C20_Witness ==
  /\ BothDelivered
  /\ entry.fn = "withServicePrincipalSecret"
  /\ PromiseForm = Resolved(Credentials("withServicePrincipalSecret"))
  /\ entry.callbackArgs = <<Null, Credentials("withServicePrincipalSecret"),
                            Subscriptions(SubscriptionList)>>

-----------------------------------------------------------------------------
\* withUsernamePasswordWithAuthResponse.

UserAuthResponse(subscriptions) ==
  [kind |-> "authResponse", credentials |-> "UserTokenCredentials",
   subscriptions |-> subscriptions]

\* The call up to its first await: new UserTokenCredentials(...) with six
\* arguments (no tokenCache), whose exception is caught and returned as a
\* rejection, then creds.getToken().
UserPassStart ==
  /\ userPass.pc = "idle"
  /\ \E tokenAudience \in TokenAudiences, tokenCache \in TokenCacheOptions,
        threw \in BOOLEAN :
       LET called == [userPass EXCEPT !.tokenAudience = tokenAudience,
                                      !.tokenCacheOption = tokenCache]
       IN userPass' =
            IF threw
              THEN [called EXCEPT !.pc = "done", !.result =
                      Rejected(Error("constructor", <<"invalid username or password">>))]
              ELSE [called EXCEPT !.pc = "token", !.constructed = TRUE,
                      !.credentialCache = credentialTokenCache(""),
                      !.getTokenCalls = 1]
  /\ UNCHANGED <<tokenVars, sp, authFile, urlCheck, interactive, entry, device>>

\* result = await creds.getToken(), then buildTenantList(creds) is called.
UserPassTokenSettles ==
  /\ userPass.pc = "token"
  /\ \E ok \in BOOLEAN :
       userPass' =
         IF ok
           THEN [userPass EXCEPT !.pc = "tenants", !.tokenObtained = TRUE,
                                 !.tenantCalls = @ + 1]
           ELSE [userPass EXCEPT !.pc = "done", !.result =
                   Rejected(Error("getToken", <<"getToken failed">>))]
  /\ UNCHANGED <<tokenVars, sp, authFile, urlCheck, interactive, entry, device>>

\* tenantList = await buildTenantList(creds), then the subscriptions are
\* asked for unless the audience is graph.
UserPassTenantsSettle ==
  /\ userPass.pc = "tenants"
  /\ \E ok \in BOOLEAN :
       userPass' =
         IF ~ok
           THEN [userPass EXCEPT !.pc = "done", !.result =
                   Rejected(Error("buildTenantList", <<"tenants failed">>))]
         ELSE IF ~isGraph(userPass.tokenAudience)
           THEN [userPass EXCEPT !.pc = "subscriptions", !.subscriptionCalls = @ + 1]
         ELSE [userPass EXCEPT !.pc = "done", !.result = Resolved(UserAuthResponse(<<>>))]
  /\ UNCHANGED <<tokenVars, sp, authFile, urlCheck, interactive, entry, device>>

\* subscriptionList = await getSubscriptionsFromTenants(creds, tenantList)
UserPassSubscriptionsSettle ==
  /\ userPass.pc = "subscriptions"
  /\ \E ok \in BOOLEAN :
       userPass' =
         IF ok
           THEN [userPass EXCEPT !.pc = "done",
                                 !.result = Resolved(UserAuthResponse(SubscriptionList))]
           ELSE [userPass EXCEPT !.pc = "done",
                                 !.result = Rejected(Error("subscriptions", <<"list failed">>))]
  /\ UNCHANGED <<tokenVars, sp, authFile, urlCheck, interactive, entry, device>>

-----------------------------------------------------------------------------
\* The three login flows that take options.tokenAudience, called by one
\* program.

InitFlows == TokenIdle /\ LoginIdle

NextFlows ==
  \/ SpStart
  \/ SpTokenSettles
  \/ SpSubscriptionsSettle
  \/ UserPassStart
  \/ UserPassTokenSettles
  \/ UserPassTenantsSettle
  \/ UserPassSubscriptionsSettle
  \/ InteractiveStart
  \/ UserCodeCallback
  \/ DeviceCodeJob
  \/ DeviceCodeCallback
  \/ TenantListJob
  \/ TenantListSettles
  \/ SubscriptionsJob
  \/ SubscriptionListSettles
  \/ ResultJob

SpecFlows == InitFlows /\ [][NextFlows]_vars

\* The cache the claim expects a credential to work on.
ExpectedCache(tokenCacheOption) ==
  IF tokenCacheOption # "" THEN tokenCacheOption ELSE "MemoryCache"

\* C21: the credential created by the service-principal or the
\* username/password login works on the caller's options.tokenCache when one
\* is passed, and on the default cache only when none is.
C21_CallerCacheUsed ==
  /\ sp.baseConstructed => sp.credentialCache = ExpectedCache(sp.tokenCacheOption)
  /\ userPass.constructed
       => userPass.credentialCache = ExpectedCache(userPass.tokenCacheOption)

-----------------------------------------------------------------------------
\* Failures of withAuthFileWithAuthResponse before the file is accepted.

\* Which step the error of an early failure comes from.
EarlyFailureSource ==
  IF filePathOf(authFile.input) = "" THEN "withAuthFile"
  ELSE IF authFile.input.content = "unreadable" THEN "fs"
  ELSE IF authFile.input.content = "unparsable" THEN "JSON"
  ELSE "validate"

\* C22: when withAuthFile finds no file path, cannot read or parse the file,
\* or finds a required field missing, it rejects with the error of that step,
\* leaves the subscription environment variables as they were, registers no
\* environment, and constructs no credential and requests no token.
C22_EarlyFailureChangesNothing ==
  (authFile.pc # "idle" /\ ~PassedValidation)
    => /\ authFile.pc = "failed"
       /\ AuthFileResult = Rejected(authFile.error)
       /\ authFile.error.kind = "error"
       /\ authFile.error.src = EarlyFailureSource
       /\ \A n \in DOMAIN authFile.env : authFile.env[n] = "unset"
       /\ authFile.addCalls = 0
       /\ authFile.added = <<>>
       /\ sp = NoSp

\* A descriptor without tenantId was rejected and the variable named by the
\* option is still unset.
C22_Witness ==
  /\ DescriptorRead
  /\ authFile.input.present = AuthFileFields \ {"tenantId"}
  /\ authFile.input.subscriptionOption = "MY_SUBSCRIPTION"
  /\ authFile.pc = "failed"
  /\ authFile.env["MY_SUBSCRIPTION"] = "unset"
  /\ sp = NoSp

-----------------------------------------------------------------------------
\* The subscription helper in the three flows.  Each flow is summarised as:
\* the audience it was called with, the calls of getSubscriptionsFromTenants
\* it made, whether its token was obtained, whether what precedes the helper
\* (the token, and the tenant list where one is built) succeeded, and its
\* returned promise.

FlowSummaries ==
  << [ audience |-> sp.tokenAudience, calls |-> sp.subscriptionCalls,
      tokenObtained |-> sp.tokenObtained, ready |-> sp.tokenObtained,
      result |-> sp.result ],
    [ audience |-> userPass.tokenAudience, calls |-> userPass.subscriptionCalls,
      tokenObtained |-> userPass.tokenObtained,
      ready |-> userPass.tokenObtained /\ userPass.tenantCalls = 1
                  /\ userPass.pc \in {"subscriptions", "done"}
                  /\ ~(userPass.result.state = "rejected"
                       /\ userPass.result.value.src = "buildTenantList"),
      result |-> userPass.result ],
    [ audience |-> interactive.tokenAudience, calls |-> interactive.subscriptionCalls,
      tokenObtained |-> interactive.chain["token"].state = "resolved",
      ready |-> interactive.chain["tenants"].state = "resolved",
      result |-> interactive.chain["result"] ] >>

-----------------------------------------------------------------------------
\* DeviceTokenCredentials.getToken().

\* this.username of the credential: a user's id or the constructor's default.
DeviceUsers == {"alice@contoso.com", "user@example.com"}

\* Entries of the credential's token cache: whose they are and whether the
\* token is still usable.
DeviceEntries ==
  [userId : DeviceUsers \cup {"bob@contoso.com"}, valid : BOOLEAN]

\* Variant of deviceLookupUser that asks for no particular user.
deviceLookupUserNone(username) == ""

\* getToken() { return this.getTokenFromCache(this.username); }: the user the
\* lookup is asked for.
deviceLookupUser(username) == username

\* What the lookup of the base class may settle with: the cached token when
\* the cache holds a usable entry of the user, or an error of the library.
deviceLookupOutcomes(tokenCache, user) ==
  (IF \E e \in tokenCache : e.userId = user /\ e.valid
     THEN {Resolved(TokenResponse("cache"))} ELSE {})
    \cup { Rejected(err) : err \in LookupErrors }

\* getToken(): the promise of getTokenFromCache(this.username) is returned
\* as it is.
DeviceGetToken ==
  /\ device.pc \in {"idle", "done"}
  /\ device.calls < MaxDeviceCalls
  /\ device' = [device EXCEPT !.calls = @ + 1, !.pc = "lookup",
                              !.lookupCalls = 1,
                              !.lookupUser = deviceLookupUser(device.username),
                              !.lookupError = Undefined,
                              !.result = Pending]
  /\ UNCHANGED <<tokenVars, sp, authFile, urlCheck, interactive, entry, userPass>>

\* The library's answer to the lookup settles the promise getToken() returned.
DeviceLookupCallback ==
  /\ device.pc = "lookup"
  /\ \E outcome \in deviceLookupOutcomes(device.cache, device.lookupUser) :
       device' = [device EXCEPT !.pc = "done", !.result = outcome,
                    !.lookupError = IF outcome.state = "rejected"
                                      THEN outcome.value ELSE Undefined]
  /\ UNCHANGED <<tokenVars, sp, authFile, urlCheck, interactive, entry, userPass>>

InitDevice ==
  /\ TokenIdle
  /\ sp = NoSp
  /\ authFile = NoAuthFile(NoInput)
  /\ urlCheck = NoUrlCheck
  /\ interactive = NoInteractive
  /\ entry = NoEntry
  /\ userPass = NoUserPass
  /\ \E username \in DeviceUsers, tokenCache \in SUBSET DeviceEntries :
       device = [NoDevice EXCEPT !.username = username, !.cache = tokenCache]

NextDevice ==
  \/ DeviceGetToken
  \/ DeviceLookupCallback

SpecDevice == InitDevice /\ [][NextDevice]_vars

\* C24: a getToken() of a DeviceTokenCredentials issues one cache lookup, for
\* the credential's username; it makes no live acquisition and removes no
\* cache entry; a token it resolves with comes from a usable entry of that
\* user, and when the lookup fails it is rejected with the lookup's error.
C24_DeviceGetTokenIsLookup ==
  device.calls > 0
    => /\ device.lookupCalls = 1
       /\ device.lookupUser = device.username
       /\ device.acquireCalls = 0
       /\ device.removeCalls = 0
       /\ device.result.state = "resolved"
            => /\ device.result.value = TokenResponse("cache")
               /\ \E e \in device.cache : e.userId = device.username /\ e.valid
       /\ device.lookupError # Undefined
            => device.result = Rejected(device.lookupError)
       /\ device.result.state = "rejected" => device.lookupError \in LookupErrors

\* The second getToken() of a credential whose cache holds only another
\* user's token was rejected with the lookup's error.
C24_Witness ==
  /\ device.calls = 2
  /\ device.username = "user@example.com"
  /\ device.cache = {[userId |-> "bob@contoso.com", valid |-> TRUE]}
  /\ device.result = Rejected(Error("lookup", <<"Entry not found in cache.">>))

-----------------------------------------------------------------------------
\* Delivery of repair errors, and termination of getToken().

\* C25: the error the repair chain of the current call ends with is the error
\* the promise of getTokenFromCache() is rejected with: once both are settled
\* they are the same rejection, so the repair chain's rejection has a
\* handler and reaches the caller.
C25_RepairErrorsDelivered ==
  (calls > 0 /\ CurrentRepair.R2.state = "rejected" /\ Settled(chain.cacheCatch))
    => chain.cacheCatch = CurrentRepair.R2

\* A step of the event loop: a reaction job, or a callback of the wrapped
\* library (or the promise of an overriding getTokenFromCache()) firing.
Progress ==
  \/ LookupCallback
  \/ OverrideSettles
  \/ AcquireCallback
  \/ CacheThenJob
  \/ CacheCatchJob
  \/ TokenThenJob
  \/ TokenCatchJob
  \/ \E k \in 1..MaxCalls : FindCallback(k)
  \/ \E k \in 1..MaxCalls : RemoveCallback(k)
  \/ \E k \in 1..MaxCalls : RepairThenJob(k)
  \/ \E k \in 1..MaxCalls : RepairCatchJob(k)

\* While a job is ready or a callback is due, one of them eventually runs.
\* The caller is not obliged to call getToken().
SpecFair == SpecOverride /\ WF_vars(Progress)

\* C26: every getToken() call eventually settles, and a settled call keeps
\* the outcome it settled with.
C26_GetTokenSettlesOnce ==
  /\ (calls > 0 /\ ~Settled(chain.tokenCatch)) ~> Settled(chain.tokenCatch)
  /\ [][(Settled(chain.tokenCatch) /\ calls' = calls)
          => chain'.tokenCatch = chain.tokenCatch]_vars

\* The second getToken() was settled by the callback of
\* acquireTokenWithClientCredentials, with the library's error.
C26_Witness ==
  /\ calls = 2
  /\ acquireCalls = 1
  /\ acquire = "failed"
  /\ chain.tokenCatch = Rejected(AcquireError)

====
